---- MODULE Spec2Model ----
(***************************************************************************)
(* Balance-sheet validation and flattening (question2/utils.py and its     *)
(* driver question2/validate_balance_sheet_json.py).                       *)
(*                                                                         *)
(* A JSON object is a TLA+ record whose fields are the keys that are       *)
(* present ("items" in node  is  "items" \in DOMAIN node).  A JSON value   *)
(* that is not an object is the record [json_type |-> t].  JSON null is    *)
(* None.  Monetary values are exact multiples of one cent (0.01), so the   *)
(* tolerance 0.01 of the sum check is 1 unit; float rounding error is not  *)
(* modelled.  Strings are TLC strings, \o is concatenation.  A formatted   *)
(* message is the record of its template and of the values put into it.   *)
(***************************************************************************)
EXTENDS Integers, Sequences, FiniteSets, TLC

VARIABLES file, balance_sheet_data, pc, log, raised, ret, df, csv

vars == <<file, balance_sheet_data, pc, log, raised, ret, df, csv>>

(***************************************************************************)
(* Bounds of the inputs                                                    *)
(***************************************************************************)
\* largest declared value, in units of 0.01
MaxValue == 2
\* most nodes of a document whose values vary
MaxValuedNodes == 5
\* most nodes of a document whose names vary
MaxNamedNodes == 4
\* most nodes of a document whose optional fields vary
MaxKeyedNodes == 3
\* most nodes of a document the driver reads from the file
MaxFileNodes == 3

(***************************************************************************)
(* Data model                                                              *)
(***************************************************************************)
Sections == <<"assets", "liabilities", "equity">>

None == "None"

NonObjects == {[json_type |-> "array"], [json_type |-> "number"]}

IsObject(v) == "json_type" \notin DOMAIN v

\* the file that does not exist
NoFile == [json_type |-> "no file"]

\* a variable that has not been assigned yet
Unset == [json_type |-> "unset"]

Absent == <<>>

NoError == [type |-> "none"]

RECURSIVE NodeCount(_)
RECURSIVE ItemsCount(_)
NodeCount(node) ==
    IF ~IsObject(node) THEN 0
    ELSE 1 + (IF "items" \in DOMAIN node THEN ItemsCount(node.items) ELSE 0)

ItemsCount(items) ==
    IF items = <<>> THEN 0 ELSE NodeCount(Head(items)) + ItemsCount(Tail(items))

(***************************************************************************)
(* The input documents: a shape (which sections and items lists there are) *)
(* and the name, value and account_id of each node, by pre-order index.    *)
(***************************************************************************)
RECURSIVE TreeShapes(_)
RECURSIVE ItemsShapes(_)
\* the nodes with at most n nodes (n >= 1), keys other than items left out
TreeShapes(n) == {Absent} \cup [items : ItemsShapes(n - 1)]

\* the items lists with at most n nodes
ItemsShapes(n) ==
    {<<>>} \cup
    IF n >= 1
    THEN UNION { { <<t>> \o f : f \in ItemsShapes(n - NodeCount(t)) } : t \in TreeShapes(n) }
    ELSE {}

RECURSIVE DocumentShapes(_, _, _, _)
\* the documents over sections i..3 with at most n nodes; when optional, a
\* section may be missing; a section may also be one of others
DocumentShapes(i, n, optional, others) ==
    IF i > Len(Sections) THEN {Absent}
    ELSE LET left == Len(Sections) - i
             trees == IF n >= 1 THEN TreeShapes(IF optional THEN n ELSE n - left) ELSE {}
         IN  (IF optional THEN DocumentShapes(i + 1, n, optional, others) ELSE {})
             \cup
             UNION { { (Sections[i] :> t) @@ rest :
                       rest \in DocumentShapes(i + 1, n - NodeCount(t), optional, others) } :
                     t \in trees \cup others }

RECURSIVE Decorate(_, _, _)
RECURSIVE DecorateItems(_, _, _)
\* the node of shape s whose k-th node in pre-order has the fields f[k]
Decorate(s, f, k) ==
    IF ~IsObject(s) THEN s
    ELSE f[k] @@ (IF "items" \in DOMAIN s
                  THEN [items |-> DecorateItems(s.items, f, k + 1)]
                  ELSE Absent)

DecorateItems(items, f, k) ==
    IF items = <<>> THEN <<>>
    ELSE <<Decorate(Head(items), f, k)>>
         \o DecorateItems(Tail(items), f, k + NodeCount(Head(items)))

RECURSIVE CountBefore(_, _)
\* the nodes in the sections before the i-th
CountBefore(shape, i) ==
    IF i = 1 THEN 0
    ELSE CountBefore(shape, i - 1)
         + (IF Sections[i - 1] \in DOMAIN shape THEN NodeCount(shape[Sections[i - 1]]) ELSE 0)

DocumentCount(shape) == CountBefore(shape, Len(Sections) + 1)

SectionIndex(s) == CHOOSE i \in 1..Len(Sections) : Sections[i] = s

DecorateDocument(shape, f) ==
    [s \in DOMAIN shape |-> Decorate(shape[s], f, 1 + CountBefore(shape, SectionIndex(s)))]

ValuedShapes == DocumentShapes(1, MaxValuedNodes, FALSE, {})

NamedShapes == DocumentShapes(1, MaxNamedNodes, TRUE, {})

KeyedShapes == DocumentShapes(1, MaxKeyedNodes, TRUE, {})

FileShapes == DocumentShapes(1, MaxFileNodes, TRUE, NonObjects)

\* the names of the nodes of a document whose values vary, by pre-order index
NodeNames == <<"n1", "n2", "n3", "n4", "n5", "n6", "n7", "n8">>

\* every node has a value, the values vary, the names differ
ValuedFields(n) ==
    { [k \in 1..n |-> [name |-> NodeNames[k], value |-> v[k]]] : v \in [1..n -> 0..MaxValue] }

\* every node has a value and an account id, the names vary
NamedFields == [name : {"a", "b"}, value : {1}, account_id : {"A1"}]

\* value and account_id are there or not, account_id may be null
KeyedFields ==
    { [name |-> "n"] @@ v @@ a : v \in {Absent} \cup [value : {1}],
                                 a \in {Absent} \cup [account_id : {"A1", None}] }

FileFields == [name : {"n"}, value : 0..MaxValue, account_id : {"A1"}]

(***************************************************************************)
(* utils.py                                                                *)
(***************************************************************************)
\* the 0.01 of the parent/child comparison, in units of 0.01
Tolerance == 1

\* float(node["value"]) of a value that is a multiple of 0.01, in units of 0.01
Float(v) == v

Abs(x) == IF x < 0 THEN -x ELSE x

\* a call that returns value: the exception, the return value, the messages logged
Return(value, messages) == [exc |-> NoError, value |-> value, log |-> messages]

\* a call that raises exc
Raise(exc, messages) == [exc |-> exc, value |-> <<>>, log |-> messages]

Info(text) == [level |-> "INFO", text |-> text]

\* node[key] of a key that is not there; at is the node (not part of the exception)
KeyError(key, at) == [type |-> "KeyError", key |-> key, at |-> at]

\* logger.error(f"Value mismatch for {node['name']}: node value = ..., sum of children = ...")
ValueMismatchLog(node, node_value, children_sum) ==
    [level |-> "ERROR",
     text |-> "Value mismatch for {}: node value = {}, sum of children = {}",
     name |-> node.name, node_value |-> node_value, children_sum |-> children_sum]

\* ValueError(f"Balance sheet validation failed: {node['name']} value does not match
\* sum of its children"); at is the node (not part of the exception)
ValueMismatchError(node, at) ==
    [type |-> "ValueError",
     text |-> "Balance sheet validation failed: {} value does not match sum of its children",
     name |-> node.name, at |-> at]

\* the comparison without abs()
Mismatch_NoAbs(node_value, children_sum) == node_value - children_sum > Tolerance

\* the comparison with >= for >
Mismatch_AtLeast(node_value, children_sum) == Abs(node_value - children_sum) >= Tolerance

\* the comparison with twice the tolerance
Mismatch_Wide(node_value, children_sum) == Abs(node_value - children_sum) > Tolerance + Tolerance

\* the comparison of a node's value with the sum of its children
Mismatch(node_value, children_sum) == Abs(node_value - children_sum) > Tolerance

RECURSIVE validate_node_sum(_, _)
RECURSIVE sum_validate_node_sum(_, _, _, _)
validate_node_sum(node, at) ==
    IF "value" \notin DOMAIN node THEN Raise(KeyError("value", at), <<>>)
    ELSE LET node_value == Float(node.value) IN
         IF "items" \notin DOMAIN node THEN Return(node_value, <<>>)
         ELSE LET children == sum_validate_node_sum(node.items, at, 1, 0) IN
              IF children.exc # NoError THEN children
              ELSE IF Mismatch(node_value, children.value)
              THEN Raise(ValueMismatchError(node, at),
                         <<ValueMismatchLog(node, node_value, children.value)>>)
              ELSE Return(node_value, <<>>)

\* sum(validate_node_sum(child) for child in node["items"]), from the i-th child on
sum_validate_node_sum(items, at, i, total) ==
    IF i > Len(items) THEN Return(total, <<>>)
    ELSE LET child == validate_node_sum(items[i], Append(at, i)) IN
         IF child.exc # NoError THEN child
         ELSE sum_validate_node_sum(items, at, i + 1, total + child.value)

\* validate_node_sum(balance_sheet_data[section])
validate_section(data, section) ==
    IF section \notin DOMAIN data THEN Raise(KeyError(section, <<>>), <<>>)
    ELSE validate_node_sum(data[section], <<section>>)

\* the assert with the tolerance of the parent/child comparison
BalanceEquation_Tolerant(assets_value, liabilities_value, equity_value) ==
    Abs(assets_value - (liabilities_value + equity_value)) <= Tolerance

\* the assert of validate_balance_sheet_equation
BalanceEquation(assets_value, liabilities_value, equity_value) ==
    assets_value = liabilities_value + equity_value

AssertionError == [type |-> "AssertionError", text |-> "Assets do not equal liabilities plus equity"]

\* liabilities validated before assets
validate_balance_sheet_equation_LiabilitiesFirst(data) ==
    LET liabilities == validate_section(data, "liabilities") IN
    IF liabilities.exc # NoError THEN liabilities
    ELSE LET assets == validate_section(data, "assets") IN
    IF assets.exc # NoError THEN assets
    ELSE LET equity == validate_section(data, "equity") IN
    IF equity.exc # NoError THEN equity
    ELSE IF ~BalanceEquation(assets.value, liabilities.value, equity.value)
    THEN Raise(AssertionError, <<>>)
    ELSE Return(assets.value, <<Info("All parent-child sums validated successfully")>>)

validate_balance_sheet_equation(data) ==
    LET assets == validate_section(data, "assets") IN
    IF assets.exc # NoError THEN assets
    ELSE LET liabilities == validate_section(data, "liabilities") IN
    IF liabilities.exc # NoError THEN liabilities
    ELSE LET equity == validate_section(data, "equity") IN
    IF equity.exc # NoError THEN equity
    ELSE IF ~BalanceEquation(assets.value, liabilities.value, equity.value)
    THEN Raise(AssertionError, <<>>)
    ELSE Return(assets.value, <<Info("All parent-child sums validated successfully")>>)

\* the condition without the test for null
HasRow_NullAllowed(node) == "value" \in DOMAIN node /\ "account_id" \in DOMAIN node

\* the condition under which traverse_node appends the row of node
HasRow(node) ==
    "value" \in DOMAIN node /\ "account_id" \in DOMAIN node /\ node.account_id # None

\* the path without the separator
ChildPath_NoSeparator(node, current_path) == current_path \o node.name

\* f"{current_path}/{node['name']}" if current_path else node['name']
ChildPath(node, current_path) ==
    IF current_path # "" THEN current_path \o "/" \o node.name ELSE node.name

RECURSIVE traverse_node(_, _)
RECURSIVE traverse_items(_, _, _)
\* the row of the node appended after the rows of its items
traverse_node_RowLast(node, current_path) ==
    (IF "items" \in DOMAIN node
     THEN traverse_items(node.items, ChildPath(node, current_path), 1)
     ELSE <<>>)
    \o
    (IF HasRow(node)
     THEN << [account_id |-> node.account_id, path |-> current_path,
              name |-> node.name, value |-> Float(node.value)] >>
     ELSE <<>>)

\* the rows that traverse_node(node, current_path) appends, in the order appended
traverse_node(node, current_path) ==
    (IF HasRow(node)
     THEN << [account_id |-> node.account_id, path |-> current_path,
              name |-> node.name, value |-> Float(node.value)] >>
     ELSE <<>>)
    \o
    (IF "items" \in DOMAIN node
     THEN traverse_items(node.items, ChildPath(node, current_path), 1)
     ELSE <<>>)

\* for child in node["items"]: traverse_node(child, child_path), from the i-th child on
traverse_items(items, child_path, i) ==
    IF i > Len(items) THEN <<>>
    ELSE traverse_node(items[i], child_path) \o traverse_items(items, child_path, i + 1)

RECURSIVE traverse_sections(_, _)
\* for section in ["assets", "liabilities", "equity"], from the i-th section on
traverse_sections(data, i) ==
    IF i > Len(Sections) THEN <<>>
    ELSE (IF Sections[i] \in DOMAIN data
          THEN traverse_node(data[Sections[i]], Sections[i])
          ELSE <<>>)
         \o traverse_sections(data, i + 1)

\* the rows of the DataFrame returned
get_all_child_values(data) == Return(traverse_sections(data, 1), <<>>)

\* the schema without the types of the properties
ConformsToSchema_RequiredOnly(data) ==
    /\ IsObject(data)
    /\ \A i \in 1..Len(Sections) : Sections[i] \in DOMAIN data

\* what the schema of validate_balance_sheet_json_schema accepts
ConformsToSchema(data) ==
    /\ IsObject(data)
    /\ \A i \in 1..Len(Sections) : Sections[i] \in DOMAIN data /\ IsObject(data[Sections[i]])

ValidationError == [type |-> "ValidationError"]

validate_balance_sheet_json_schema(data) ==
    IF ~ConformsToSchema(data) THEN Raise(ValidationError, <<>>)
    ELSE Return(<<>>, <<Info("Balance sheet json schema validation passed")>>)

FileNotFoundError == [type |-> "FileNotFoundError"]

\* load_balance_sheet_json: the path argument is not used to open the file
load_balance_sheet_json(f) ==
    IF f = NoFile
    THEN Raise(FileNotFoundError,
               <<[level |-> "ERROR", text |-> "Balance sheet json file not found"]>>)
    ELSE Return(f, <<>>)

(***************************************************************************)
(* validate_balance_sheet_json.py run as a script                          *)
(***************************************************************************)
NotWritten == [written |-> FALSE, rows |-> <<>>]

\* nothing logged, raised, returned or written yet
Fresh ==
    /\ log = <<>>
    /\ raised = NoError
    /\ ret = <<>>
    /\ df = <<>>
    /\ csv = NotWritten

\* the script starts: the file is there or not
Init ==
    /\ pc = "load"
    /\ balance_sheet_data = Unset
    /\ \/ file = NoFile
       \/ file \in NonObjects
       \/ \E shape \in FileShapes : \E f \in [1..DocumentCount(shape) -> FileFields] :
              file = DecorateDocument(shape, f)
    /\ Fresh

\* a step after which the script goes on whatever was raised
Step_Swallow(before, r, next) ==
    /\ log' = log \o before \o r.log
    /\ raised' = r.exc
    /\ pc' = next

\* a step of the script that calls a function: an exception ends the script
Step(before, r, next) ==
    /\ log' = log \o before \o r.log
    /\ raised' = r.exc
    /\ pc' = IF r.exc # NoError THEN "aborted" ELSE next

\* lines 17-21
Load ==
    /\ pc = "load"
    /\ LET r == load_balance_sheet_json(file) IN
       /\ Step(<<Info("Starting balance sheet validation"),
                 Info("Loading balance sheet json into memory")>>, r, "schema")
       /\ balance_sheet_data' = IF r.exc # NoError THEN balance_sheet_data ELSE r.value
    /\ UNCHANGED <<file, ret, df, csv>>

\* lines 23-24
CheckSchema ==
    /\ pc = "schema"
    /\ Step(<<Info("Validating the json schema")>>,
            validate_balance_sheet_json_schema(balance_sheet_data), "equation")
    /\ UNCHANGED <<file, balance_sheet_data, ret, df, csv>>

\* lines 26-27
CheckEquation ==
    /\ pc = "equation"
    /\ Step(<<Info("Validating the values of the balance sheet")>>,
            validate_balance_sheet_equation(balance_sheet_data), "flatten")
    /\ UNCHANGED <<file, balance_sheet_data, ret, df, csv>>

\* lines 29-30
Flatten ==
    /\ pc = "flatten"
    /\ LET r == get_all_child_values(balance_sheet_data) IN
       /\ Step(<<Info("Convert balance sheet to tabular format for ingestion by the data warehouse")>>,
               r, "write")
       /\ df' = r.value
    /\ UNCHANGED <<file, balance_sheet_data, ret, csv>>

\* line 31
WriteCsv ==
    /\ pc = "write"
    /\ csv' = [written |-> TRUE, rows |-> df]
    /\ pc' = "done"
    /\ UNCHANGED <<file, balance_sheet_data, log, raised, ret, df>>

Next ==
    \/ Load
    \/ CheckSchema
    \/ CheckEquation
    \/ Flatten
    \/ WriteCsv

Spec == Init /\ [][Next]_vars

(***************************************************************************)
(* utils.py imported: a function is called on a parsed document whose      *)
(* sections are objects                                                    *)
(***************************************************************************)
\* a call of a function of utils.py on the document
Call(name, r) ==
    /\ pc = "call"
    /\ pc' = name
    /\ log' = log \o r.log
    /\ raised' = r.exc
    /\ UNCHANGED <<file, balance_sheet_data, csv>>

\* the caller holds a document with all three sections in which every node has a
\* value
InitEquation ==
    /\ pc = "call"
    /\ file = NoFile
    /\ \E shape \in ValuedShapes : \E f \in ValuedFields(DocumentCount(shape)) :
           balance_sheet_data = DecorateDocument(shape, f)
    /\ Fresh

CallEquation ==
    LET r == validate_balance_sheet_equation(balance_sheet_data) IN
    /\ Call("validate_balance_sheet_equation", r)
    /\ ret' = IF r.exc # NoError THEN <<>> ELSE <<r.value>>
    /\ UNCHANGED df

EquationSpec == InitEquation /\ [][CallEquation]_vars

\* the caller holds a document in which the names vary, or one in which the
\* optional fields vary
InitFlatten ==
    /\ pc = "call"
    /\ file = NoFile
    /\ \/ \E shape \in NamedShapes : \E f \in [1..DocumentCount(shape) -> NamedFields] :
              balance_sheet_data = DecorateDocument(shape, f)
       \/ \E shape \in KeyedShapes : \E f \in [1..DocumentCount(shape) -> KeyedFields] :
              balance_sheet_data = DecorateDocument(shape, f)
    /\ Fresh

CallFlatten ==
    LET r == get_all_child_values(balance_sheet_data) IN
    /\ Call("get_all_child_values", r)
    /\ df' = r.value
    /\ UNCHANGED ret

FlattenSpec == InitFlatten /\ [][CallFlatten]_vars

(***************************************************************************)
(* The nodes of a document, by position: <<section, i1, ..., id>> is the   *)
(* id-th item of ... of the i1-th item of the section root.                *)
(***************************************************************************)
RECURSIVE NodePositions(_, _)
NodePositions(node, at) ==
    {at} \cup
    IF "items" \in DOMAIN node
    THEN UNION { NodePositions(node.items[i], Append(at, i)) : i \in 1..Len(node.items) }
    ELSE {}

Positions(data) == UNION { NodePositions(data[s], <<s>>) : s \in DOMAIN data }

RECURSIVE Descend(_, _, _)
Descend(node, at, k) ==
    IF k > Len(at) THEN node ELSE Descend(node.items[at[k]], at, k + 1)

NodeAt(data, at) == Descend(data[at[1]], at, 2)

Parent(at) == SubSeq(at, 1, Len(at) - 1)

IsPrefix(p, q) == Len(p) <= Len(q) /\ SubSeq(q, 1, Len(p)) = p

\* p and q are in one section, neither is above the other, and p branches off first
LeftOf(p, q) ==
    \E k \in 2..Len(p) :
        /\ k <= Len(q)
        /\ SubSeq(p, 1, k - 1) = SubSeq(q, 1, k - 1)
        /\ p[k] < q[k]

SectionBefore(p, q) == SectionIndex(p[1]) < SectionIndex(q[1])

\* p is visited before q when a node comes before its items
PreOrderBefore(p, q) ==
    p # q /\ (SectionBefore(p, q) \/ IsPrefix(p, q) \/ LeftOf(p, q))

\* p is finished before q when a node comes after its items
PostOrderBefore(p, q) ==
    p # q /\ (SectionBefore(p, q) \/ IsPrefix(q, p) \/ LeftOf(p, q))

RECURSIVE InPreOrder(_)
\* the positions of S, in pre-order
InPreOrder(S) ==
    IF S = {} THEN <<>>
    ELSE LET first == CHOOSE p \in S : \A q \in S \ {p} : PreOrderBefore(p, q)
         IN  <<first>> \o InPreOrder(S \ {first})

Internal(data) == { at \in Positions(data) : "items" \in DOMAIN NodeAt(data, at) }

Leaves(data) == Positions(data) \ Internal(data)

\* all three sections are there and every node has a value
Valued(data) ==
    /\ \A i \in 1..Len(Sections) : Sections[i] \in DOMAIN data
    /\ \A at \in Positions(data) : "value" \in DOMAIN NodeAt(data, at)

RECURSIVE SumOfValues(_)
SumOfValues(items) ==
    IF items = <<>> THEN 0 ELSE Head(items).value + SumOfValues(Tail(items))

\* declared value of the node minus the sum of the declared values of its items
Excess(data, at) == NodeAt(data, at).value - SumOfValues(NodeAt(data, at).items)

OutOfTolerance(data, at) == Excess(data, at) > Tolerance \/ Excess(data, at) < -Tolerance

Called(name) == pc = name

LogTexts == { log[i].text : i \in DOMAIN log }

ErrorsLogged == { i \in DOMAIN log : log[i].level = "ERROR" }

(***************************************************************************)
(* get_all_child_values                                                    *)
(***************************************************************************)
\* the node has a value field and an account_id that is not null
Emitted(node) ==
    /\ "value" \in DOMAIN node
    /\ "account_id" \in DOMAIN node
    /\ node.account_id # None

\* the positions of the nodes that are to have a row, in document order
RowPositions(data) ==
    InPreOrder({ at \in Positions(data) : Emitted(NodeAt(data, at)) })

RECURSIVE AncestorPath(_, _)
\* the section name and the names of the ancestors of the node below the section
\* root, joined by "/"
AncestorPath(data, at) ==
    IF Len(at) <= 2 THEN at[1]
    ELSE AncestorPath(data, Parent(at)) \o "/" \o NodeAt(data, Parent(at)).name

\* C1 as stated: every row of get_all_child_values has as path the section name
\* followed by the names of the node's ancestors below the section root, joined by
\* "/"; the row of a direct child of a section root has the section name as path.
C1_PathIsAncestorNames ==
    Called("get_all_child_values") =>
        LET at == RowPositions(balance_sheet_data) IN
        \A k \in 1..Len(df) :
            k <= Len(at) => df[k].path = AncestorPath(balance_sheet_data, at[k])

RECURSIVE RootedPath(_, _)
\* the section name and the names of all the ancestors of the node, the section
\* root first, joined by "/"
RootedPath(data, at) ==
    IF Len(at) = 1 THEN at[1]
    ELSE RootedPath(data, Parent(at)) \o "/" \o NodeAt(data, Parent(at)).name

\* C1: every row of get_all_child_values has as path the section name followed by
\* the names of all the node's ancestors, from the section root down to its
\* parent, joined by "/"; the row of a section root has the section name as path.
C1_PathIsSectionAndAncestorNames ==
    Called("get_all_child_values") =>
        LET at == RowPositions(balance_sheet_data) IN
        /\ Len(df) = Len(at)
        /\ \A k \in 1..Len(df) : df[k].path = RootedPath(balance_sheet_data, at[k])

\* the rows of a root named "a" in assets, of an item "b" of it and of an item of
\* that item
C1_Witness ==
    /\ Called("get_all_child_values")
    /\ Len(df) >= 3
    /\ df[1].path = "assets"
    /\ df[2].path = "assets/a"
    /\ df[3].path = "assets/a/b"

\* C4: get_all_child_values returns one row per node that has a value and a
\* non-null account_id, and no row for any other node.
C4_OneRowPerEmittedNode ==
    Called("get_all_child_values") =>
        /\ Len(df) = Cardinality({ at \in Positions(balance_sheet_data) :
                                    Emitted(NodeAt(balance_sheet_data, at)) })
        /\ \A k \in 1..Len(df) : df[k].account_id # None

\* a node without a row (no account_id, a null one, or no value) above a node
\* with a row, and a node with an account_id but no value
C4_Witness ==
    /\ Called("get_all_child_values")
    /\ Len(df) >= 1
    /\ \E p, q \in Positions(balance_sheet_data) :
        /\ p # q /\ IsPrefix(p, q)
        /\ ~Emitted(NodeAt(balance_sheet_data, p))
        /\ Emitted(NodeAt(balance_sheet_data, q))
    /\ \E p \in Positions(balance_sheet_data) :
        /\ "account_id" \in DOMAIN NodeAt(balance_sheet_data, p)
        /\ "value" \notin DOMAIN NodeAt(balance_sheet_data, p)

\* the fields of a row that are copied from the node
RowOf(node) == [account_id |-> node.account_id, name |-> node.name, value |-> node.value]

\* C8: the rows of get_all_child_values are the nodes that have a row in document
\* order: assets, liabilities, equity; a node before its items; the items in the
\* order of the list, each with all below it; nothing sorted, nothing dropped.
C8_RowsInDocumentOrder ==
    Called("get_all_child_values") =>
        LET at == RowPositions(balance_sheet_data) IN
        /\ Len(df) = Len(at)
        /\ \A k \in 1..Len(df) :
               [account_id |-> df[k].account_id, name |-> df[k].name, value |-> df[k].value]
                   = RowOf(NodeAt(balance_sheet_data, at[k]))

\* a first item "a" with an item "b" of its own, then a second item "a": the rows
\* are a, b, a below the root
C8_Witness ==
    /\ Called("get_all_child_values")
    /\ \E s \in DOMAIN balance_sheet_data :
        LET root == balance_sheet_data[s] IN
        /\ "items" \in DOMAIN root /\ Len(root.items) = 2
        /\ root.items[1].name = "a" /\ root.items[2].name = "a"
        /\ "items" \in DOMAIN root.items[1] /\ Len(root.items[1].items) = 1
        /\ root.items[1].items[1].name = "b"
        /\ Emitted(root.items[1]) /\ Emitted(root.items[2]) /\ Emitted(root.items[1].items[1])
    /\ Len(df) = 4
    /\ df[2].name = "a" /\ df[3].name = "b" /\ df[4].name = "a"

(***************************************************************************)
(* validate_balance_sheet_equation                                         *)
(***************************************************************************)
Exact(data, at) == Excess(data, at) = 0

\* data is a document that was exact at every node with items, in which then the
\* value of the node at p alone was changed by more than the tolerance
PerturbedAt(data, p) ==
    /\ OutOfTolerance(data, p)
    /\ \A q \in Internal(data) \ {p} :
           IF Len(p) > 1 /\ q = Parent(p)
           THEN Excess(data, q) = -Excess(data, p)
           ELSE Exact(data, q)

\* C2: on a document whose nodes with items all have exactly the sum of their
\* items as value, no value mismatch is raised; when the value of one node with
\* items is then changed by more than 0.01, the ValueError names that node.
C2_PerturbedNodeIsNamed ==
    (Called("validate_balance_sheet_equation") /\ Valued(balance_sheet_data)) =>
        /\ (\A at \in Internal(balance_sheet_data) : Exact(balance_sheet_data, at))
               => raised.type # "ValueError"
        /\ \A p \in Internal(balance_sheet_data) :
               PerturbedAt(balance_sheet_data, p) =>
                   /\ raised.type = "ValueError"
                   /\ raised.at = p
                   /\ raised.name = NodeAt(balance_sheet_data, p).name

\* the changed node is below a section root, whose value is then off as well
C2_Witness ==
    /\ Called("validate_balance_sheet_equation")
    /\ Valued(balance_sheet_data)
    /\ raised.type = "ValueError"
    /\ \E p \in Internal(balance_sheet_data) :
        /\ Len(p) > 1
        /\ PerturbedAt(balance_sheet_data, p)
        /\ Excess(balance_sheet_data, p) < 0
        /\ raised.at = p

WithinTolerance(data) == \A at \in Internal(data) : ~OutOfTolerance(data, at)

\* assets.value - (liabilities.value + equity.value), of the declared values
EquationGap(data) == data.assets.value - (data.liabilities.value + data.equity.value)

\* C3: when every node with items is within the tolerance, the call succeeds
\* (and returns the declared assets value) exactly when the declared
\* assets.value = liabilities.value + equity.value, and raises the AssertionError
\* otherwise, whatever the size of the difference.
C3_EquationIsExact ==
    (/\ Called("validate_balance_sheet_equation")
     /\ Valued(balance_sheet_data)
     /\ WithinTolerance(balance_sheet_data)) =>
        IF EquationGap(balance_sheet_data) = 0
        THEN raised = NoError /\ ret = <<balance_sheet_data.assets.value>>
        ELSE raised.type = "AssertionError" /\ ret = <<>>

\* the declared values are off by 0.01, the sums of the items of the roots are not
C3_Witness ==
    /\ Called("validate_balance_sheet_equation")
    /\ Valued(balance_sheet_data)
    /\ WithinTolerance(balance_sheet_data)
    /\ EquationGap(balance_sheet_data) = 1
    /\ "items" \in DOMAIN balance_sheet_data.assets
    /\ Excess(balance_sheet_data, <<"assets">>) = 1
    /\ raised.type = "AssertionError"

\* the nodes with items whose value is out of tolerance
Failing(data) == { at \in Internal(data) : OutOfTolerance(data, at) }

\* C9: on a document with mismatches the ValueError is that of the first
\* mismatching node in post-order (sections in the order assets, liabilities,
\* equity), nothing is checked or logged after it, and the AssertionError is
\* raised only when no node mismatches.
C9_FirstFailureInPostOrder ==
    (Called("validate_balance_sheet_equation") /\ Valued(balance_sheet_data)) =>
        LET failing == Failing(balance_sheet_data) IN
        /\ failing # {} =>
               /\ raised.type = "ValueError"
               /\ raised.at \in failing
               /\ \A q \in failing \ {raised.at} : PostOrderBefore(raised.at, q)
               /\ Len(log) = 1
        /\ raised.type = "AssertionError" => failing = {}

\* a mismatching node below a mismatching node, a mismatch in a later section,
\* and an equation that does not hold
C9_Witness ==
    /\ Called("validate_balance_sheet_equation")
    /\ Valued(balance_sheet_data)
    /\ raised.type = "ValueError"
    /\ Len(raised.at) = 2
    /\ \E q, r \in Failing(balance_sheet_data) :
        /\ q = Parent(raised.at)
        /\ SectionBefore(q, r)
    /\ EquationGap(balance_sheet_data) # 0

RECURSIVE SumAt(_, _)
SumAt(data, S) ==
    IF S = {} THEN 0
    ELSE LET at == CHOOSE x \in S : TRUE
         IN  NodeAt(data, at).value + SumAt(data, S \ {at})

LeavesOf(data, section) == { at \in Leaves(data) : at[1] = section }

InternalOf(data, section) == { at \in Internal(data) : at[1] = section }

\* declared value of the section minus the sum of the values of its leaves
SectionDrift(data, section) == data[section].value - SumAt(data, LeavesOf(data, section))

\* C10: after a successful call the declared value of each section differs from
\* the sum of the values of its nodes without items by at most 0.01 times the
\* number of nodes with items in the section.
C10_DriftBoundedPerLevel ==
    (/\ Called("validate_balance_sheet_equation")
     /\ Valued(balance_sheet_data)
     /\ raised = NoError) =>
        \A i \in 1..Len(Sections) :
            Abs(SectionDrift(balance_sheet_data, Sections[i]))
                <= Tolerance * Cardinality(InternalOf(balance_sheet_data, Sections[i]))

\* a successful call on a document in which a section is off by more than 0.01
C10_Witness ==
    /\ Called("validate_balance_sheet_equation")
    /\ Valued(balance_sheet_data)
    /\ raised = NoError
    /\ \E i \in 1..Len(Sections) :
        Abs(SectionDrift(balance_sheet_data, Sections[i])) > Tolerance

(***************************************************************************)
(* Failures                                                                *)
(***************************************************************************)
Main == pc \in {"load", "schema", "equation", "flatten", "write", "done", "aborted"}

\* a section is missing or is not an object, or the document is not an object
SchemaViolated(data) ==
    \/ ~IsObject(data)
    \/ \E i \in 1..Len(Sections) :
           Sections[i] \notin DOMAIN data \/ ~IsObject(data[Sections[i]])

\* C5: in the script a document that violates the schema raises the
\* ValidationError before the sum validation is started, and after any failure
\* the script has ended: nothing is flattened and nothing is written.
C5_SchemaGateAndNoPartialResult ==
    /\ (Main /\ balance_sheet_data # Unset /\ SchemaViolated(balance_sheet_data)) =>
           /\ "Validating the values of the balance sheet" \notin LogTexts
           /\ pc \in {"schema", "aborted"}
           /\ pc = "aborted" => raised = ValidationError
    /\ (Main /\ raised # NoError) =>
           /\ pc = "aborted"
           /\ "Convert balance sheet to tabular format for ingestion by the data warehouse"
                  \notin LogTexts
           /\ df = <<>>
           /\ csv = NotWritten
           /\ ~ENABLED Next

\* the script has ended on a document in which assets is there but is no object
C5_Witness ==
    /\ pc = "aborted"
    /\ raised = ValidationError
    /\ IsObject(balance_sheet_data)
    /\ "assets" \in DOMAIN balance_sheet_data
    /\ ~IsObject(balance_sheet_data.assets)
    /\ csv = NotWritten

CoreFailures == {"ValidationError", "ValueError", "AssertionError"}

\* C6 as stated: whenever the schema check, the parent/child sum check or the
\* equation check fails, an error message is logged before the error is raised.
C6_EveryFailureIsLogged ==
    raised.type \in CoreFailures => ErrorsLogged # {}

\* C6: every failure of the schema check, the sum check and the equation check
\* is raised to the caller and none is swallowed (no success message of the
\* failed check, no return value, the script ends); an error message is logged
\* before the ValueError of a sum mismatch, and none before the ValidationError
\* and the AssertionError.
C6_FailuresRaisedMismatchLogged ==
    /\ raised.type = "ValueError" =>
           /\ ErrorsLogged = {Len(log)}
           /\ log[Len(log)].name = raised.name
    /\ raised.type \in {"ValidationError", "AssertionError"} => ErrorsLogged = {}
    /\ raised.type = "ValidationError" =>
           "Balance sheet json schema validation passed" \notin LogTexts
    /\ raised.type \in {"ValueError", "AssertionError"} =>
           "All parent-child sums validated successfully" \notin LogTexts
    /\ raised.type \in CoreFailures =>
           /\ ret = <<>>
           /\ Main => pc = "aborted"

\* the script has ended on the AssertionError, with no error message in the log
C6_Witness ==
    /\ pc = "aborted"
    /\ raised.type = "AssertionError"
    /\ ErrorsLogged = {}
    /\ Len(log) > 0

\* C7 as stated: the ValueError of a sum mismatch carries the name of the node,
\* its declared value and the sum of its children.
C7_ErrorCarriesValueAndSum ==
    raised.type = "ValueError" =>
        {"name", "node_value", "children_sum"} \subseteq DOMAIN raised

\* C7: a ValueError is raised for a node with items only when its declared value
\* and the sum of its items differ by more than 0.01 (not when they differ by
\* 0.01 or less); the ValueError carries the name of the node alone, the error
\* message logged before it the name, the declared value and the sum.
C7_MismatchBeyondToleranceNamesNode ==
    raised.type = "ValueError" =>
        LET node == NodeAt(balance_sheet_data, raised.at)
            last == log[Len(log)]
        IN  /\ OutOfTolerance(balance_sheet_data, raised.at)
            /\ \A at \in Internal(balance_sheet_data) :
                   ~OutOfTolerance(balance_sheet_data, at) => raised.at # at
            /\ raised.name = node.name
            /\ {"node_value", "children_sum"} \cap DOMAIN raised = {}
            /\ last.level = "ERROR"
            /\ last.name = node.name
            /\ last.node_value = node.value
            /\ last.children_sum = SumOfValues(node.items)

\* a node that differs from the sum of its items by exactly 0.01 was passed
\* before the ValueError of another node
C7_Witness ==
    /\ Called("validate_balance_sheet_equation")
    /\ raised.type = "ValueError"
    /\ \E at \in Internal(balance_sheet_data) :
        /\ Abs(Excess(balance_sheet_data, at)) = Tolerance
        /\ PostOrderBefore(at, raised.at)

====
